---- MODULE Spec2Model ----
(***************************************************************************)
(* Model of composer/airflow_1_samples/bq_copy_across_locations.py:        *)
(* read_table_list (the CSV table-list reader) and the module-level DAG    *)
(* block that builds one export -> relocate -> import chain per record     *)
(* between the 'start' and 'end' sentinels.                                *)
(*                                                                         *)
(* Strings are sequences of one-character strings, so that                 *)
(* str.replace(":", "_") and the f-string concatenations are computed      *)
(* character by character.  A CSV row is a sequence of strings, a file is  *)
(* a sequence of rows.  A task is a record [task_id, kind]; tasks is the   *)
(* sequence of operator objects in creation order and edges is the set of  *)
(* <<upstream, downstream>> pairs of positions in tasks set by >>.         *)
(***************************************************************************)
EXTENDS Naturals, Sequences, FiniteSets

VARIABLES
    file,         \* rows of the configuration file (header first)
    load,         \* "first" or "second" parse of the DAG file
    pc,           \* position of the module's execution
    pos,          \* rows consumed from csv_reader
    table_list,   \* read_table_list's local list
    log,          \* logger calls, in order: [level, row]
    ioerr,        \* the except IOError clause ran in this load
    all_records,  \* module variable all_records: [kind, items]
    k,            \* records consumed by the for loop of line 140
    tasks,        \* operators created in the DAG context, in order
    edges,        \* dependencies set by >>
    exc,          \* exception that ended the load, "none" otherwise
    prev          \* outcome of the first load, kept for comparison

vars == <<file, load, pc, pos, table_list, log, ioerr, all_records, k,
          tasks, edges, exc, prev>>

(* ------------------------------ bounds -------------------------------- *)

\* data rows of a configuration file
MaxRows == 2
\* columns of a row
MaxCols == 3
\* characters of a table identifier in a one-record file of IdFiles
MaxIdLen == 2
\* characters of a table identifier in a two-record file of IdFiles
MaxPairIdLen == 1

(* ------------------------------ strings ------------------------------- *)

SUFFIX_BQ_to_GCS == <<"_", "B", "Q", "_", "t", "o", "_", "G", "C", "S">>
SUFFIX_GCS_to_GCS == <<"_", "G", "C", "S", "_", "t", "o", "_", "G", "C", "S">>
SUFFIX_GCS_to_BQ == <<"_", "G", "C", "S", "_", "t", "o", "_", "B", "Q">>
START_ID == <<"s", "t", "a", "r", "t">>
END_ID == <<"e", "n", "d">>

\* str.replace(":", "_", 1): only the first colon is replaced
SanitizeFirstOnly(s) ==
    [i \in 1..Len(s) |->
        IF s[i] = ":" /\ (\A j \in 1..(i - 1) : s[j] # ":") THEN "_" ELSE s[i]]

\* str.replace(":", "_")
Sanitize(s) == [i \in 1..Len(s) |-> IF s[i] = ":" THEN "_" ELSE s[i]]

(* ------------------------------ inputs -------------------------------- *)

Alphabet == {":", "_", "a"}

StringsUpTo(n) == UNION {[1..m -> Alphabet] : m \in 0..n}

\* table identifiers of the files of Files
TableIds == {<<"p", ":", "d">>, <<"q">>}

\* content of the columns after the second
Filler == <<"x">>

RowsOfWidth(n) ==
    {r \in [1..n -> TableIds \cup {Filler}] :
        \A i \in 1..n : (i > 2) <=> (r[i] = Filler)}

Rows == UNION {RowsOfWidth(n) : n \in 0..MaxCols}

Headers == {<<>>, <<Filler>>, <<<<"p", ":", "d">>, <<"q">>>>}

SeqsUpTo(S, n) == UNION {[1..m -> S] : m \in 0..n}

\* the empty file, and every header followed by up to MaxRows rows
Files == {<<>>} \cup {<<h>> \o body : h \in Headers, body \in SeqsUpTo(Rows, MaxRows)}

\* well-formed files over every identifier of the alphabet
IdRows(n) == {<<s, d>> : s \in StringsUpTo(n), d \in StringsUpTo(n)}

IdFiles ==
    {<<<<>>, r>> : r \in IdRows(MaxIdLen)}
        \cup {<<<<>>, r1, r2>> : r1 \in IdRows(MaxPairIdLen), r2 \in IdRows(MaxPairIdLen)}

(* --------------------------- read_table_list -------------------------- *)

None == [kind |-> "None", items |-> <<>>]
Unbound == [kind |-> "unbound", items |-> <<>>]
ListOf(l) == [kind |-> "list", items |-> l]

NoPrev == [status |-> "none", exc |-> "none", records |-> Unbound,
           nodes |-> {}, edges |-> {}]

\* a module-level list that survives the call
StaleTableList == table_list

\* table_list = []
FreshTableList == <<>>

\* columns taken in the wrong order
TableTupleSwapped(row) == [table_source |-> row[2], table_dest |-> row[1]]

\* table_tuple = {"table_source": row[0], "table_dest": row[1]}
TableTuple(row) == [table_source |-> row[1], table_dest |-> row[2]]

\* the value the caller receives when the except clause returned the partial list
HandlerResultPartial == ListOf(table_list)

\* the except clause falls off the end of the function: the caller receives None
HandlerResult == None

Init ==
    /\ file \in Files
    /\ load = "first"
    /\ pc = "dag"
    /\ pos = 0
    /\ table_list = <<>>
    /\ log = <<>>
    /\ ioerr = FALSE
    /\ all_records = Unbound
    /\ k = 0
    /\ tasks = <<>>
    /\ edges = {}
    /\ exc = "none"
    /\ prev = NoPrev

(* ------------------------------ DAG block ------------------------------ *)

DummyOperator(id) == [task_id |-> id, kind |-> "DummyOperator"]

\* start = DummyOperator(task_id="start"); end = DummyOperator(task_id="end")
InitialTasks == <<DummyOperator(START_ID), DummyOperator(END_ID)>>

\* position in tasks of the two sentinels
StartPos == 1
EndPos == 2

\* start >> end wired when the DAG is created
InitialEdgesDirect == {<<StartPos, EndPos>>}

\* no dependency is set before the loop
InitialEdges == {}

ExportId(record) == Sanitize(record.table_source) \o SUFFIX_BQ_to_GCS

\* the export's task_id expression pasted unchanged into the relocate operator
RelocateIdPasted(record) == Sanitize(record.table_source) \o SUFFIX_BQ_to_GCS

RelocateId(record) == Sanitize(record.table_source) \o SUFFIX_GCS_to_GCS

ImportId(record) == Sanitize(record.table_dest) \o SUFFIX_GCS_to_BQ

\* the three operators created for one record, in creation order
ChainTasks(record) ==
    << [task_id |-> ExportId(record), kind |-> "BigQueryToCloudStorageOperator"],
       [task_id |-> RelocateId(record),
        kind |-> "GoogleCloudStorageToGoogleCloudStorageOperator"],
       [task_id |-> ImportId(record), kind |-> "GoogleCloudStorageToBigQueryOperator"] >>

\* the chain hung under the operator created last instead of under start
ChainEdgesSerial(n) ==
    {<<IF n > EndPos THEN n ELSE StartPos, n + 1>>, <<n + 1, n + 2>>,
     <<n + 2, n + 3>>, <<n + 3, EndPos>>}

\* the chain left without its >> end
ChainEdgesNoEnd(n) == {<<StartPos, n + 1>>, <<n + 1, n + 2>>, <<n + 2, n + 3>>}

\* start >> BQ_to_GCS >> GCS_to_GCS >> GCS_to_BQ >> end, the three operators
\* being at positions n+1, n+2, n+3 of tasks
ChainEdges(n) ==
    {<<StartPos, n + 1>>, <<n + 1, n + 2>>, <<n + 2, n + 3>>, <<n + 3, EndPos>>}

NodeIds == {tasks[i].task_id : i \in 1..Len(tasks)}

EdgeIds == {<<tasks[e[1]].task_id, tasks[e[2]].task_id>> : e \in edges}

(* ------------------------------- actions ------------------------------- *)

Raise(e) ==
    /\ pc' = "raised"
    /\ exc' = e

\* with models.DAG(...) as dag: start = ...; end = ...
DagEnter ==
    /\ pc = "dag"
    /\ tasks' = InitialTasks
    /\ edges' = InitialEdges
    /\ pc' = "call"
    /\ UNCHANGED <<file, load, pos, table_list, log, ioerr, all_records, k, exc, prev>>

\* the call of read_table_list, up to the try statement
ReadEnter ==
    /\ pc = "call"
    /\ table_list' = FreshTableList
    /\ log' = Append(log, [level |-> "info", row |-> <<>>])
    /\ pos' = 0
    /\ pc' = "open"
    /\ UNCHANGED <<file, load, ioerr, all_records, k, tasks, edges, exc, prev>>

\* io.open(...) and csv.reader(csv_file) succeed
ReadOpen ==
    /\ pc = "open"
    /\ pc' = "header"
    /\ UNCHANGED <<file, load, pos, table_list, log, ioerr, all_records, k,
                   tasks, edges, exc, prev>>

\* next(csv_reader): StopIteration on a file without any row
ReadSkipHeader ==
    /\ pc = "header"
    /\ IF Len(file) = 0
          THEN /\ Raise("StopIteration")
               /\ UNCHANGED pos
          ELSE /\ pos' = 1
               /\ pc' = "rows"
               /\ UNCHANGED exc
    /\ UNCHANGED <<file, load, table_list, log, ioerr, all_records, k, tasks,
                   edges, prev>>

\* a row with fewer than two columns is skipped
ReadRowSkipShort ==
    /\ pc = "rows"
    /\ pos < Len(file)
    /\ LET row == file[pos + 1] IN
        /\ log' = Append(log, [level |-> "info", row |-> row])
        /\ table_list' = IF Len(row) < 2 THEN table_list
                         ELSE Append(table_list, TableTuple(row))
        /\ pos' = pos + 1
        /\ UNCHANGED <<pc, exc>>
    /\ UNCHANGED <<file, load, ioerr, all_records, k, tasks, edges, prev>>

\* one iteration of for row in csv_reader: row[0] or row[1] raises IndexError
\* on a row with fewer than two columns
ReadRow ==
    /\ pc = "rows"
    /\ pos < Len(file)
    /\ LET row == file[pos + 1] IN
        /\ log' = Append(log, [level |-> "info", row |-> row])
        /\ IF Len(row) < 2
              THEN /\ Raise("IndexError")
                   /\ UNCHANGED <<table_list, pos>>
              ELSE /\ table_list' = Append(table_list, TableTuple(row))
                   /\ pos' = pos + 1
                   /\ UNCHANGED <<pc, exc>>
    /\ UNCHANGED <<file, load, ioerr, all_records, k, tasks, edges, prev>>

\* return table_list; all_records = ...
ReadReturn ==
    /\ pc = "rows"
    /\ pos = Len(file)
    /\ all_records' = ListOf(table_list)
    /\ k' = 0
    /\ pc' = "build"
    /\ UNCHANGED <<file, load, pos, table_list, log, ioerr, tasks, edges, exc, prev>>

\* the except clause logs and raises the error again
ReadIOErrorReraise ==
    /\ pc \in {"open", "header", "rows"}
    /\ ioerr' = TRUE
    /\ log' = Append(log, [level |-> "error", row |-> <<>>])
    /\ Raise("IOError")
    /\ UNCHANGED <<file, load, pos, table_list, all_records, k, tasks, edges, prev>>

\* the open or a read inside the with block raises IOError: the except clause
\* logs it and the function ends without a return statement
ReadIOError ==
    /\ pc \in {"open", "header", "rows"}
    /\ ioerr' = TRUE
    /\ log' = Append(log, [level |-> "error", row |-> <<>>])
    /\ all_records' = HandlerResult
    /\ k' = 0
    /\ pc' = "build"
    /\ UNCHANGED <<file, load, pos, table_list, tasks, edges, exc, prev>>

\* one iteration of for record in all_records
BuildRecord ==
    /\ pc = "build"
    /\ all_records.kind = "list"
    /\ k < Len(all_records.items)
    /\ LET record == all_records.items[k + 1] IN
        /\ tasks' = tasks \o ChainTasks(record)
        /\ edges' = edges \cup ChainEdges(Len(tasks))
    /\ k' = k + 1
    /\ UNCHANGED <<file, load, pc, pos, table_list, log, ioerr, all_records, exc, prev>>

\* for record in None: TypeError
BuildNone ==
    /\ pc = "build"
    /\ all_records.kind = "None"
    /\ Raise("TypeError")
    /\ UNCHANGED <<file, load, pos, table_list, log, ioerr, all_records, k,
                   tasks, edges, prev>>

\* the loop is exhausted and the with block ends
BuildDone ==
    /\ pc = "build"
    /\ all_records.kind = "list"
    /\ k = Len(all_records.items)
    /\ pc' = "done"
    /\ UNCHANGED <<file, load, pos, table_list, log, ioerr, all_records, k,
                   tasks, edges, exc, prev>>

\* the DAG file is parsed a second time: the module runs again from its top;
\* the objects of the first parse are still in memory until they are rebound
Reload ==
    /\ pc \in {"done", "raised"}
    /\ load = "first"
    /\ load' = "second"
    /\ prev' = [status |-> pc, exc |-> exc, records |-> all_records,
                nodes |-> NodeIds, edges |-> EdgeIds]
    /\ pc' = "dag"
    /\ pos' = 0
    /\ log' = <<>>
    /\ ioerr' = FALSE
    /\ all_records' = Unbound
    /\ k' = 0
    /\ exc' = "none"
    /\ UNCHANGED <<file, table_list, tasks, edges>>

Next ==
    \/ DagEnter
    \/ ReadEnter
    \/ ReadOpen
    \/ ReadSkipHeader
    \/ ReadRow
    \/ ReadReturn
    \/ ReadIOError
    \/ BuildRecord
    \/ BuildNone
    \/ BuildDone
    \/ Reload

Spec == Init /\ [][Next]_vars

\* one load of a well-formed file, without I/O failure
InitIds ==
    /\ file \in IdFiles
    /\ load = "first"
    /\ pc = "dag"
    /\ pos = 0
    /\ table_list = <<>>
    /\ log = <<>>
    /\ ioerr = FALSE
    /\ all_records = Unbound
    /\ k = 0
    /\ tasks = <<>>
    /\ edges = {}
    /\ exc = "none"
    /\ prev = NoPrev

NextIds ==
    \/ DagEnter
    \/ ReadEnter
    \/ ReadOpen
    \/ ReadSkipHeader
    \/ ReadRow
    \/ ReadReturn
    \/ BuildRecord
    \/ BuildDone

SpecIds == InitIds /\ [][NextIds]_vars

(* ----------------------- vocabulary of the claims ---------------------- *)

HasHeader == Len(file) >= 1

\* number of rows after the header
NData == IF HasHeader THEN Len(file) - 1 ELSE 0

\* the i-th row after the header
DataRow(i) == file[i + 1]

AllRowsWide == \A i \in 1..Len(file) : Len(file[i]) >= 2

DataRowsWide == \A i \in 1..NData : Len(DataRow(i)) >= 2

\* id is s with every ":" replaced by "_" and nothing else changed, then suffix
IsSanitizedWith(id, s, suffix) ==
    /\ Len(id) = Len(s) + Len(suffix)
    /\ \A i \in 1..Len(s) : IF s[i] = ":" THEN id[i] = "_" ELSE id[i] = s[i]
    /\ \A j \in 1..Len(suffix) : id[Len(s) + j] = suffix[j]

NoColon(id) == \A i \in 1..Len(id) : id[i] # ":"

\* positions in tasks of the operators created for the i-th record
ExportPos(i) == 3 * i
RelocatePos(i) == 3 * i + 1
ImportPos(i) == 3 * i + 2

ChainIdSet(i) ==
    {tasks[ExportPos(i)].task_id, tasks[RelocatePos(i)].task_id,
     tasks[ImportPos(i)].task_id}

TaskIdsDistinct == Cardinality(NodeIds) = Len(tasks)

\* the i-th chain is start -> export -> relocate -> import -> end
ChainWired(i) ==
    LET e == tasks[ExportPos(i)]
        r == tasks[RelocatePos(i)]
        m == tasks[ImportPos(i)]
    IN  /\ e.kind = "BigQueryToCloudStorageOperator"
        /\ r.kind = "GoogleCloudStorageToGoogleCloudStorageOperator"
        /\ m.kind = "GoogleCloudStorageToBigQueryOperator"
        /\ <<START_ID, e.task_id>> \in EdgeIds
        /\ <<e.task_id, r.task_id>> \in EdgeIds
        /\ <<r.task_id, m.task_id>> \in EdgeIds
        /\ <<m.task_id, END_ID>> \in EdgeIds

WellFormedBuilt == pc = "done" /\ HasHeader /\ DataRowsWide /\ TaskIdsDistinct

ErrorLogged == \E i \in 1..Len(log) : log[i].level = "error"

RECURSIVE AcyclicOn(_, _)
\* no cycle among the nodes N under the edges E: peel off the nodes without
\* a predecessor in N until none is left
AcyclicOn(N, E) ==
    IF N = {} THEN TRUE
    ELSE LET roots == {n \in N : \A e \in E : e[2] # n \/ e[1] \notin N}
         IN  IF roots = {} THEN FALSE ELSE AcyclicOn(N \ roots, E)

(* -------------------------------- claims ------------------------------- *)

\* C1 (as amended): a load of a well-formed file with N data rows and pairwise
\* distinct task ids ends with exactly 3N + 2 nodes: start, end and N chains
\* of an export, a relocate and an import node, each chain wired
\* start -> export -> relocate -> import -> end.
C1_ChainsBuilt ==
    WellFormedBuilt =>
        /\ Len(tasks) = 3 * NData + 2
        /\ Cardinality(NodeIds) = 3 * NData + 2
        /\ tasks[StartPos].task_id = START_ID
        /\ tasks[EndPos].task_id = END_ID
        /\ \A i \in 1..NData : ChainWired(i)

C1_Witness == WellFormedBuilt /\ NData = 2

\* C1 (as stated): the same graph holds exactly N + 2 nodes.
C1_AsStated ==
    WellFormedBuilt =>
        /\ Cardinality(NodeIds) = NData + 2
        /\ \A i \in 1..NData : ChainWired(i)

C3_IOErrorSwallowed ==
    ioerr =>
        /\ ErrorLogged
        /\ log[Len(log)].level = "error"
        /\ all_records = None \/ all_records = ListOf(<<>>)
        /\ exc # "IOError"
        /\ pc = "build" => exc = "none"
        /\ pc \in {"build", "raised", "done"}

C3_Witness == ioerr /\ pc = "build" /\ exc = "none" /\ all_records = None

\* C4: the task ids of every chain hold no colon: the export and relocate ids
\* are the record's source with each ":" replaced by "_" and every other
\* character kept in place, followed by _BQ_to_GCS and _GCS_to_GCS, and the
\* import id is the destination treated the same, followed by _GCS_to_BQ.
C4_IdsSanitized ==
    (pc \in {"build", "done"} /\ all_records.kind = "list") =>
        \A i \in 1..k :
            LET record == all_records.items[i]
                e == tasks[ExportPos(i)].task_id
                r == tasks[RelocatePos(i)].task_id
                m == tasks[ImportPos(i)].task_id
            IN  /\ NoColon(e) /\ NoColon(r) /\ NoColon(m)
                /\ IsSanitizedWith(e, record.table_source, SUFFIX_BQ_to_GCS)
                /\ IsSanitizedWith(r, record.table_source, SUFFIX_GCS_to_GCS)
                /\ IsSanitizedWith(m, record.table_dest, SUFFIX_GCS_to_BQ)

C4_Witness ==
    /\ pc = "done"
    /\ k = 1
    /\ all_records.items[1].table_source = <<":", ":">>
    /\ all_records.items[1].table_dest = <<"a", ":">>
    /\ tasks[ImportPos(1)].task_id = <<"a", "_">> \o SUFFIX_GCS_to_BQ

\* the list read_table_list returned holds one record per row after the
\* header, in file order, made of the row's first two columns
RecordsMatchRows ==
    /\ Len(all_records.items) = NData
    /\ \A i \in 1..NData :
        /\ all_records.items[i].table_source = DataRow(i)[1]
        /\ all_records.items[i].table_dest = DataRow(i)[2]

\* C5 (as amended): for a readable file that has at least a header row and
\* whose rows all have two columns or more, read_table_list raises nothing and
\* returns one record per row after the first, in file order, the i-th made
\* of columns 0 and 1 of row i+1; the first row and the columns after the
\* second are left out.
C5_RecordsInFileOrder ==
    (AllRowsWide /\ HasHeader /\ ~ioerr) =>
        /\ exc = "none"
        /\ all_records.kind = "list" => RecordsMatchRows
        /\ pc = "rows" => (Len(table_list) = pos - 1 /\ pos <= Len(file))

C5_Witness ==
    /\ AllRowsWide /\ ~ioerr /\ pc = "build" /\ all_records.kind = "list"
    /\ Len(file) = 3
    /\ Len(file[2]) = 3
    /\ file[2][1] # file[2][2]
    /\ file[2] # file[3]
    /\ file[1] = <<<<"p", ":", "d">>, <<"q">>>>

\* C5 (as stated): the same for every readable file whose rows all have two
\* columns or more, the file without any row included.
C5_AsStated ==
    (AllRowsWide /\ ~ioerr) =>
        /\ exc = "none"
        /\ all_records.kind = "list" => RecordsMatchRows

\* C6: while and after the build loop runs, every edge starts at start, ends
\* at end or joins two nodes of one record's chain, no edge enters start or
\* leaves end, and the edges form no cycle.
C6_ChainsIndependentAcyclic ==
    (pc \in {"build", "done"} /\ all_records.kind = "list") =>
        /\ Len(tasks) = 3 * k + 2
        /\ \A e \in EdgeIds :
            \/ e[1] = START_ID
            \/ e[2] = END_ID
            \/ \E i \in 1..k : {e[1], e[2]} \subseteq ChainIdSet(i)
        /\ \A e \in EdgeIds : e[2] # START_ID /\ e[1] # END_ID
        /\ AcyclicOn(NodeIds, EdgeIds)

C6_Witness ==
    /\ pc = "build" /\ all_records.kind = "list"
    /\ k = 2
    /\ Cardinality(EdgeIds) = 8

\* C7: a second load of the same file starts from an empty record list and
\* from a graph holding start and end only, and when both loads return a
\* record list the lists are equal, and when both run to their end the node
\* identifiers and the edges are the same sets.
C7_ReloadIdentical ==
    load = "second" =>
        /\ pc = "open" => table_list = <<>>
        /\ pc = "call" => (tasks = InitialTasks /\ edges = {})
        /\ (all_records.kind = "list" /\ prev.records.kind = "list")
              => all_records = prev.records
        /\ (pc = "done" /\ prev.status = "done")
              => (NodeIds = prev.nodes /\ EdgeIds = prev.edges)

C7_Witness ==
    /\ load = "second" /\ pc = "done" /\ prev.status = "done"
    /\ Len(all_records.items) = 2
    /\ Cardinality(prev.nodes) = 8

\* the first row after the header that has fewer than two columns, 0 if none
FirstShort ==
    IF DataRowsWide THEN 0
    ELSE CHOOSE i \in 1..NData :
            /\ Len(DataRow(i)) < 2
            /\ \A j \in 1..(i - 1) : Len(DataRow(j)) >= 2

\* C8: a row after the header with fewer than two columns is never consumed:
\* unless an IOError ends the read first, read_table_list returns no list,
\* logs no error, and the load ends at that row with an IndexError that
\* reaches the caller, the records parsed before it being lost.
C8_ShortRowPropagates ==
    (FirstShort > 0) =>
        /\ pos <= FirstShort
        /\ all_records.kind # "list"
        /\ pc # "done"
        /\ ~ioerr =>
              /\ ~ErrorLogged
              /\ all_records = Unbound
              /\ pc = "raised" => (exc = "IndexError" /\ pos = FirstShort)

C8_Witness ==
    /\ FirstShort = 2
    /\ file[3] = <<>>
    /\ pc = "raised" /\ exc = "IndexError"
    /\ Len(table_list) = 1
    /\ all_records = Unbound

\* C9: once the open or a read has raised IOError, whatever the number of
\* rows already appended, the caller holds None and not the rows parsed so
\* far, the build loop creates no chain node and the load ends there with an
\* unhandled TypeError, the nodes being start and end only.
C9_NoPartialBuild ==
    ioerr =>
        /\ all_records = None
        /\ k = 0
        /\ tasks = InitialTasks
        /\ NodeIds = {START_ID, END_ID}
        /\ pc \in {"build", "raised"}
        /\ pc = "raised" => exc = "TypeError"

C9_Witness ==
    /\ ioerr /\ pc = "raised" /\ exc = "TypeError"
    /\ Len(table_list) = 2
    /\ Len(tasks) = 2

\* s and t are the same string once every ":" is replaced by "_"
SameSanitized(s, t) ==
    /\ Len(s) = Len(t)
    /\ \A i \in 1..Len(s) : s[i] = t[i] \/ ({s[i], t[i]} \subseteq {":", "_"})

BuiltRecords == all_records.items

\* C10 (as amended): when no two records have sources that are equal once
\* every ":" is replaced by "_", and no two have destinations that are equal
\* once every ":" is replaced by "_", the 3N task ids are pairwise distinct
\* and none of them is start or end.
C10_IdsUniqueWhenSanitizedUnique ==
    (/\ pc = "done"
     /\ \A i, j \in 1..Len(BuiltRecords) :
            i # j =>
                /\ ~SameSanitized(BuiltRecords[i].table_source, BuiltRecords[j].table_source)
                /\ ~SameSanitized(BuiltRecords[i].table_dest, BuiltRecords[j].table_dest))
        => /\ Len(tasks) = 3 * Len(BuiltRecords) + 2
           /\ TaskIdsDistinct

C10_Witness ==
    /\ pc = "done"
    /\ Len(BuiltRecords) = 2
    /\ BuiltRecords[1].table_source = <<":">>
    /\ BuiltRecords[2].table_source = <<"a">>
    /\ BuiltRecords[1].table_dest = <<"a">>
    /\ BuiltRecords[2].table_dest = <<"_">>
    /\ TaskIdsDistinct

\* C10 (as stated): when the sources are pairwise distinct and the
\* destinations are pairwise distinct, the 3N task ids are pairwise distinct
\* and none of them is start or end.
C10_AsStated ==
    (/\ pc = "done"
     /\ \A i, j \in 1..Len(BuiltRecords) :
            i # j =>
                /\ BuiltRecords[i].table_source # BuiltRecords[j].table_source
                /\ BuiltRecords[i].table_dest # BuiltRecords[j].table_dest)
        => /\ Len(tasks) = 3 * Len(BuiltRecords) + 2
           /\ TaskIdsDistinct

====
